---- MODULE Spec2Model ----
(***************************************************************************)
(* Financial metrics derivation and forecast-caching pipeline of           *)
(* agentic/fmp_data_puller.py and agentic/financial_forecastor_agent.py.   *)
(*                                                                         *)
(* Numbers.  A JSON/Python number is modelled as an exact rational, the    *)
(* pair <<n, d>> with d > 0 in lowest terms; Python's None is the pair     *)
(* <<0, 0>>.  A dict is a function from its keys to its values, so a       *)
(* missing key is a key outside DOMAIN.  Fiscal-year labels ("2024") are   *)
(* modelled by the integer they spell.                                     *)
(***************************************************************************)
EXTENDS Integers, Sequences, FiniteSets, TLC

VARIABLES store, source, run, hist, dv, cl, td, pp, sv

vars == <<store, source, run, hist, dv, cl, td, pp, sv>>

(***************************************************************************)
(* Rational arithmetic with None                                           *)
(***************************************************************************)
Null == <<0, 0>>

Num(n) == <<n, 1>>

Zero == Num(0)

\* what a division by 0 raises; no operation of the code is defined on it
ZeroDivisionError == <<1, 0>>

IsNull(x) == x = Null

AbsInt(n) == IF n < 0 THEN 0 - n ELSE n

RECURSIVE GCD(_, _)
GCD(a, b) == IF b = 0 THEN a ELSE GCD(b, a % b)

\* n / d for an integer d > 0, in lowest terms
Frac(n, d) == LET g == GCD(AbsInt(n), d) IN <<n \div g, d \div g>>

Add(a, b) == Frac(a[1] * b[2] + b[1] * a[2], a[2] * b[2])

Sub(a, b) == Frac(a[1] * b[2] - b[1] * a[2], a[2] * b[2])

Mul(a, b) == Frac(a[1] * b[1], a[2] * b[2])

\* a / b for a, b numbers: raises when b is 0
Div(a, b) ==
    IF b[1] = 0 THEN ZeroDivisionError
    ELSE IF b[1] < 0 THEN Frac(0 - a[1] * b[2], 0 - a[2] * b[1])
    ELSE Frac(a[1] * b[2], a[2] * b[1])

Abs(a) == <<AbsInt(a[1]), a[2]>>

\* x > 0 on a number
Pos(x) == x[1] > 0

\* Python truthiness of an Optional[float]: None and 0 are falsy
Truthy(x) == ~IsNull(x) /\ x[1] # 0

\* x or y
Or(x, y) == IF Truthy(x) THEN x ELSE y

\* d.get(key, default)
Get(d, key, default) == IF key \in DOMAIN d THEN d[key] ELSE default

\* the literal 1e6 of calculate_key_metrics
Million == 1000000

Hundred == Num(100)

(***************************************************************************)
(* Dicts                                                                   *)
(***************************************************************************)
EmptyDict == [k \in {} |-> Null]

\* d1.update(d2), also {**d1, **d2}
Update(d1, d2) == [k \in DOMAIN d1 \cup DOMAIN d2 |-> IF k \in DOMAIN d2 THEN d2[k] ELSE d1[k]]

\* d[k] = v
Put(d, k, v) == [j \in DOMAIN d \cup {k} |-> IF j = k THEN v ELSE d[j]]

\* max(keys) for a non-empty set of years
MaxOf(S) == CHOOSE m \in S : \A y \in S : y <= m

(***************************************************************************)
(* calculate_key_metrics: the Metrics Deriver                              *)
(***************************************************************************)
\* a deriver that reads the year from income['date'] only
FiscalYearFromDateOnly(income) == Get(income, "date", 0)

\* the year taken from income['date'][:4], else income['calendarYear'];
\* 0 stands for the empty string (no fiscal year, the position is skipped)
FiscalYearOf(income) ==
    LET date_str == Get(income, "date", 0)
    IN IF date_str # 0 THEN date_str ELSE Get(income, "calendarYear", 0)

\* a deriver that reads an absent market_cap as 0
EnterpriseValueOrZero(market_cap, net_debt) ==
    Add(Or(market_cap, Zero), net_debt)

\* ev = market_cap + net_debt if market_cap else None
EnterpriseValue(market_cap, net_debt) ==
    IF Truthy(market_cap) THEN Add(market_cap, net_debt) ELSE Null

\* a margin that is null, not 0, when there is no revenue
MarginOrNull(value, revenue) ==
    IF Pos(revenue) THEN Mul(Div(value, revenue), Hundred) ELSE Null

\* (value / revenue * 100) if revenue > 0 else 0
Margin(value, revenue) ==
    IF Pos(revenue) THEN Mul(Div(value, revenue), Hundred) ELSE Zero

\* a growth rate that starts out as None
InitialGrowthNull == Null

\* revenue_growth = 0, ebitda_growth = 0, eps_growth = 0 before the
\* `if i < num_years - 1` block
InitialGrowth == Zero

\* one loop iteration of calculate_key_metrics: the entry of position i
YearMetrics(income_statements, balance_sheets, cash_flows, market_cap, shares_outstanding, current_price, i, num_years) ==
    LET income == income_statements[i]
        balance == balance_sheets[i]
        cashflow == cash_flows[i]
        revenue == Or(Get(income, "revenue", Zero), Zero)
        ebitda == Or(Get(income, "ebitda", Zero), Zero)
        ebit == Or(Get(income, "operatingIncome", Get(income, "ebit", Zero)), Zero)
        net_income == Or(Get(income, "netIncome", Zero), Zero)
        adj_ebitda == Or(Get(income, "ebitda", Zero), ebitda)
        adj_ebit == Or(Get(income, "operatingIncome", Get(income, "ebit", Zero)), ebit)
        adj_net_income == Or(Get(income, "netIncome", Zero), net_income)
        cfo == Or(Get(cashflow, "operatingCashFlow", Zero), Zero)
        capex == Abs(Or(Get(cashflow, "capitalExpenditure", Zero), Zero))
        fcff == Sub(cfo, capex)
        total_debt == Or(Get(balance, "totalDebt", Zero), Zero)
        cash == Or(Get(balance, "cashAndCashEquivalents", Zero), Zero)
        net_debt == Sub(total_debt, cash)
        total_equity == Or(Get(balance, "totalStockholdersEquity", Zero), Zero)
        total_assets == Or(Get(balance, "totalAssets", Zero), Zero)
        income_tax == Abs(Or(Get(income, "incomeTaxExpense", Zero), Zero))
        interest_expense == Abs(Or(Get(income, "interestExpense", Zero), Zero))
        adj_tax_rate == IF Pos(Add(adj_net_income, income_tax))
                        THEN Mul(Div(income_tax, Add(adj_net_income, income_tax)), Hundred)
                        ELSE Zero
        net_margin == Margin(adj_net_income, revenue)
        ebitda_margin == Margin(adj_ebitda, revenue)
        ebit_margin == Margin(adj_ebit, revenue)
        shares == Or(shares_outstanding,
                     IF Truthy(market_cap) /\ Truthy(current_price)
                     THEN Div(market_cap, current_price) ELSE Zero)
        adj_eps == IF Pos(shares) THEN Div(adj_net_income, shares) ELSE Zero
        prev == income_statements[i + 1]
        prev_revenue == Or(Get(prev, "revenue", Zero), Zero)
        prev_ebitda == Or(Get(prev, "ebitda", Zero), Zero)
        prev_net_income == Or(Get(prev, "netIncome", Zero), Zero)
        prev_eps == IF Pos(shares) THEN Div(prev_net_income, shares) ELSE Zero
        has_prev == i < num_years
        revenue_growth == IF ~has_prev THEN InitialGrowth
                          ELSE IF Pos(prev_revenue)
                          THEN Mul(Div(Sub(revenue, prev_revenue), prev_revenue), Hundred)
                          ELSE Zero
        ebitda_growth == IF ~has_prev THEN InitialGrowth
                         ELSE IF Pos(prev_ebitda)
                         THEN Mul(Div(Sub(adj_ebitda, prev_ebitda), prev_ebitda), Hundred)
                         ELSE Zero
        eps_growth == IF ~has_prev THEN InitialGrowth
                      ELSE IF Pos(prev_eps)
                      THEN Mul(Div(Sub(adj_eps, prev_eps), prev_eps), Hundred)
                      ELSE Zero
        interest_cover == IF Pos(interest_expense) THEN Div(adj_ebit, interest_expense) ELSE Null
        net_debt_equity == IF Pos(total_equity)
                           THEN Mul(Div(net_debt, total_equity), Hundred) ELSE Null
        net_debt_ebitda == IF Pos(adj_ebitda) THEN Div(net_debt, adj_ebitda) ELSE Null
        roce == IF Pos(Sub(total_assets, cash))
                THEN Mul(Div(adj_ebit, Sub(total_assets, cash)), Hundred) ELSE Zero
        roe == IF Pos(total_equity) THEN Mul(Div(adj_net_income, total_equity), Hundred) ELSE Zero
        ev == EnterpriseValue(market_cap, net_debt)
        fcff_yield == IF Truthy(ev) /\ Pos(ev) THEN Mul(Div(fcff, ev), Hundred) ELSE Null
        ev_ebitda == IF Truthy(ev) /\ Pos(adj_ebitda) THEN Div(ev, adj_ebitda) ELSE Null
        ev_revenue == IF Truthy(ev) /\ Pos(revenue) THEN Div(ev, revenue) ELSE Null
        adj_pe == IF Truthy(current_price) /\ Pos(adj_eps) THEN Div(current_price, adj_eps) ELSE Null
    IN [revenue |-> Div(revenue, Num(Million)),
        adj_ebitda |-> Div(adj_ebitda, Num(Million)),
        adj_ebit |-> Div(adj_ebit, Num(Million)),
        adj_net_income |-> Div(adj_net_income, Num(Million)),
        net_margin |-> net_margin,
        adj_eps |-> adj_eps,
        cfo |-> Div(cfo, Num(Million)),
        fcff |-> Div(fcff, Num(Million)),
        revenue_growth |-> revenue_growth,
        ebitda_margin |-> ebitda_margin,
        ebitda_growth |-> ebitda_growth,
        ebit_margin |-> ebit_margin,
        adj_eps_growth |-> eps_growth,
        adj_tax_rate |-> adj_tax_rate,
        interest_cover |-> interest_cover,
        net_debt_equity |-> net_debt_equity,
        net_debt_ebitda |-> net_debt_ebitda,
        roce |-> roce,
        roe |-> roe,
        fcff_yield |-> fcff_yield,
        dividend_yield |-> Null,
        ev_ebitda |-> ev_ebitda,
        ev_revenue |-> ev_revenue,
        adj_pe |-> adj_pe]

Min3(a, b, c) == IF a <= b /\ a <= c THEN a ELSE IF b <= c THEN b ELSE c

\* the loop of calculate_key_metrics over positions i..num_years, writing
\* metrics[fiscal_year] in order (a later position overwrites an equal key)
RECURSIVE DeriveFrom(_, _, _, _, _, _, _, _, _)
DeriveFrom(metrics, income_statements, balance_sheets, cash_flows, market_cap, shares_outstanding, current_price, i, num_years) ==
    IF i > num_years THEN metrics
    ELSE LET fiscal_year == FiscalYearOf(income_statements[i])
             next == IF fiscal_year = 0 THEN metrics
                     ELSE Put(metrics, fiscal_year,
                              YearMetrics(income_statements, balance_sheets, cash_flows,
                                          market_cap, shares_outstanding, current_price,
                                          i, num_years))
         IN DeriveFrom(next, income_statements, balance_sheets, cash_flows,
                       market_cap, shares_outstanding, current_price, i + 1, num_years)

calculate_key_metrics(income_statements, balance_sheets, cash_flows, market_cap, shares_outstanding, current_price) ==
    DeriveFrom(EmptyDict, income_statements, balance_sheets, cash_flows,
               market_cap, shares_outstanding, current_price, 1,
               Min3(Len(income_statements), Len(balance_sheets), Len(cash_flows)))

(***************************************************************************)
(* forecast_next_fiscal_year of fmp_data_puller.py: the carry-forward      *)
(* fallback                                                                *)
(***************************************************************************)
forecast_items ==
    {"revenue", "adj_ebitda", "adj_ebit", "adj_net_income", "net_margin",
     "adj_eps", "cfo", "fcff", "revenue_growth", "ebitda_margin",
     "ebitda_growth", "ebit_margin", "adj_eps_growth", "adj_tax_rate",
     "interest_cover", "net_debt_equity", "net_debt_ebitda", "roce", "roe",
     "fcff_yield", "dividend_yield", "ev_ebitda", "ev_revenue", "adj_pe"}

\* item.endswith('_growth') over forecast_items
EndsWithGrowth(item) == item \in {"revenue_growth", "ebitda_growth", "adj_eps_growth"}

\* previous_metrics None is the empty dict: both are falsy
forecast_next_fiscal_year(latest_metrics, previous_metrics) ==
    [item \in forecast_items |->
        IF item \in DOMAIN latest_metrics
        THEN IF EndsWithGrowth(item)
             THEN IF DOMAIN previous_metrics # {} /\ item \in DOMAIN previous_metrics
                  THEN latest_metrics[item]
                  ELSE Zero
             ELSE latest_metrics[item]
        ELSE Null]

(***************************************************************************)
(* Bounds and inputs                                                       *)
(***************************************************************************)
\* the tickers the pipeline is run for
Tickers == {"TSLA"}

\* pipeline invocations (single-writer usage: one at a time)
Runs == {1}

\* the latest fiscal year the statement source reports at the start
BaseYear == 2024

\* how many new annual filings the statement source may publish
MaxFilings == 1

\* limit=3 of the fetch_financial_statements_fmp calls of pull_key_metrics
FetchLimit == 3

\* the forecast horizon of pull_key_metrics: forecast_year_1, forecast_year_2
Horizon == 2

\* a forecaster told to regenerate stored years
always_regenerate == TRUE

\* force_regenerate=False of both generate_forecast_for_years calls
force_regenerate == FALSE

\* (market_cap, shares_outstanding, current_price) a caller passes
MarketInputs ==
    {<<Null, Null, Null>>,
     <<Num(500 * Million), Num(10 * Million), Num(50)>>}

\* outcomes of the statement fetch: an exception or three failed requests,
\* one failed request, a single fiscal year on file, a full window
FetchOutcomes == {"error", "partial", "short", "full"}

\* outcomes of one call of the forecast capability: an exception or timeout,
\* a JSON value that is not an object, the object {}, an object with
\* unknown keys, an object with the requested keys
CapOutcomes == {"error", "nondict", "empty", "badkeys", "good"}

\* outcomes of load_all_data_from_cache as generate_forecast_for_years sees
\* it: loaded, an exception out of the call (also a failed import of the
\* forecaster module), a failed query that leaves key_metrics None
LoadOutcomes == {"ok", "raise", "empty"}

(***************************************************************************)
(* The statement source                                                    *)
(***************************************************************************)
\* the filed statements of fiscal year y: the same on every fetch
IncomeOf(y) ==
    [date |-> y,
     revenue |-> Num((y - 2020) * 10 * Million),
     ebitda |-> Num((y - 2020) * 3 * Million),
     operatingIncome |-> Num((y - 2020) * 2 * Million),
     netIncome |-> Num((y - 2021) * Million),
     incomeTaxExpense |-> Num(Million),
     interestExpense |-> Num(Million)]

BalanceOf(y) ==
    [date |-> y,
     totalDebt |-> Num(8 * Million),
     cashAndCashEquivalents |-> Num(3 * Million),
     totalStockholdersEquity |-> Num(20 * Million),
     totalAssets |-> Num(43 * Million)]

CashFlowOf(y) ==
    [date |-> y,
     operatingCashFlow |-> Num((y - 2019) * Million),
     capitalExpenditure |-> Num(0 - Million)]

\* the statement of one of the three endpoints for fiscal year y
StatementOf(endpoint, y) ==
    CASE endpoint = "income-statement" -> IncomeOf(y)
      [] endpoint = "balance-sheet-statement" -> BalanceOf(y)
      [] OTHER -> CashFlowOf(y)

\* n statements, most recent first, ending at fiscal year latest
Window(endpoint, latest, n) == [k \in 1..n |-> StatementOf(endpoint, latest - k + 1)]

\* fetch_financial_statements_fmp; a list that is None is the empty list
\* (pull_key_metrics only tests the lists' truthiness)
fetch_financial_statements_fmp(latest, outcome) ==
    CASE outcome = "error" -> <<<<>>, <<>>, <<>>>>
      [] outcome = "partial" ->
            <<Window("income-statement", latest, FetchLimit), <<>>, Window("cash-flow-statement", latest, FetchLimit)>>
      [] outcome = "short" ->
            <<Window("income-statement", latest, 1), Window("balance-sheet-statement", latest, 1),
              Window("cash-flow-statement", latest, 1)>>
      [] OTHER ->
            <<Window("income-statement", latest, FetchLimit), Window("balance-sheet-statement", latest, FetchLimit),
              Window("cash-flow-statement", latest, FetchLimit)>>

(***************************************************************************)
(* The forecast capability                                                 *)
(***************************************************************************)
\* a well-formed response for fiscal year y
CapForecast(y) ==
    [item \in forecast_items |->
        IF item = "revenue" THEN Num(1100 + 100 * (y - BaseYear - 1))
        ELSE IF item \in {"dividend_yield", "interest_cover"} THEN Null
        ELSE Num(7)]

\* a response object whose keys are not metric field names
BadKeys == [forecast |-> Num(1)]

\* generate_forecast_with_openai: the parsed response if it is a dict, else
\* None (the empty dict of the model: `if not forecast` treats both alike)
generate_forecast_with_openai(y, outcome) ==
    CASE outcome = "good" -> CapForecast(y)
      [] outcome = "badkeys" -> BadKeys
      [] OTHER -> EmptyDict

(***************************************************************************)
(* The store: the key_metrics table, one row per id "{ticker}_key_metrics" *)
(***************************************************************************)
NoRow == [present |-> FALSE, metrics_data |-> EmptyDict, fiscal_year_end |-> "Dec"]

\* the row INSERT OR REPLACE writes; metrics_data is the parsed JSON text
Row(metrics_data, fiscal_year_end) ==
    [present |-> TRUE, metrics_data |-> metrics_data, fiscal_year_end |-> fiscal_year_end]

\* check_key_metrics_cache: the stored panel, or None (the empty dict: the
\* caller tests `if cached`); ok is whether the query succeeded
check_key_metrics_cache(row, ok) ==
    IF ok /\ row.present THEN row.metrics_data ELSE EmptyDict

\* a save that keeps the stored years the new panel does not mention
save_key_metrics_merge(row, metrics_data, ok) ==
    IF ok THEN Row(Update(row.metrics_data, metrics_data), "Dec") ELSE row

\* save_key_metrics with fiscal_year_end left None: the row after the call
save_key_metrics(row, metrics_data, ok) ==
    IF ok THEN Row(metrics_data, "Dec") ELSE row

\* load_all_data_from_cache, its key_metrics part
NoKeyMetrics == [has_key_metrics |-> FALSE, metrics |-> EmptyDict, fiscal_year_end |-> "Dec"]

load_all_data_from_cache(row, ok) ==
    IF ok /\ row.present
    THEN [has_key_metrics |-> TRUE, metrics |-> row.metrics_data,
          fiscal_year_end |-> row.fiscal_year_end]
    ELSE NoKeyMetrics

\* a save that writes the one year as the whole panel
save_forecast_year_only(row, forecast_year, forecast_data, ok) ==
    IF ok
    THEN Row(Put(EmptyDict, forecast_year, forecast_data),
             IF row.present THEN row.fiscal_year_end ELSE "Dec")
    ELSE row

\* a save that writes the default label whatever the row holds
save_forecast_default_label(row, forecast_year, forecast_data, ok) ==
    IF ok
    THEN Row(Put(IF row.present THEN row.metrics_data ELSE EmptyDict,
                 forecast_year, forecast_data), "Dec")
    ELSE row

\* save_forecast_to_cache: read the row, set the year, write the row back
save_forecast_to_cache(row, forecast_year, forecast_data, ok) ==
    IF ok
    THEN Row(Put(IF row.present THEN row.metrics_data ELSE EmptyDict,
                 forecast_year, forecast_data),
             IF row.present THEN row.fiscal_year_end ELSE "Dec")
    ELSE row

(***************************************************************************)
(* One invocation of pull_key_metrics                                      *)
(***************************************************************************)
NoReturn == [none |-> TRUE, panel |-> EmptyDict]

IdleRun ==
    [pc |-> "idle", ticker |-> "TSLA",
     market_cap |-> Null, shares_outstanding |-> Null, current_price |-> Null,
     use_openai_forecast |-> FALSE,
     path |-> "none",            \* "cached" or "fresh": which branch of `if cached`
     cached |-> EmptyDict, metrics |-> EmptyDict, result |-> EmptyDict,
     latest_actual_year |-> 0,
     all_data |-> NoKeyMetrics, results |-> EmptyDict, i |-> 0,
     forecast |-> EmptyDict,
     row |-> NoRow,              \* `result` of the SELECT of save_forecast_to_cache
     ret |-> NoReturn,
     calls |-> <<>>,             \* history: <<year, outcome>> of each capability call
     contexts |-> <<>>,          \* history: the metrics handed to each capability call
     fetched |-> "none",         \* history: outcome of the statement fetch
     write_failed |-> FALSE,     \* history: some store write of the run failed
     read_failed |-> FALSE,      \* history: some store read of the run failed
     raised |-> FALSE,           \* history: the forecaster raised into pull_key_metrics
     loaded |-> EmptyDict]       \* history: the panel the forecaster loaded at its start

\* hist: what the previous invocation returned, kept when that invocation
\* was a forecast step that fetched a full window and met no store failure
NoHist == [valid |-> FALSE, latest_actual_year |-> 0, panel |-> EmptyDict]

Summary(rr) ==
    IF rr.pc = "done" /\ rr.use_openai_forecast /\ ~rr.ret.none /\ rr.fetched = "full"
       /\ ~rr.write_failed /\ ~rr.read_failed
    THEN [valid |-> TRUE, latest_actual_year |-> rr.latest_actual_year,
          panel |-> rr.ret.panel]
    ELSE NoHist

\* a return statement that does not leave the function
KeepRunning(rr, value) == [rr EXCEPT !.ret = [none |-> FALSE, panel |-> value]]

Return(rr, value) == [rr EXCEPT !.pc = "done", !.ret = [none |-> FALSE, panel |-> value]]

ReturnNone(rr) == [rr EXCEPT !.pc = "done", !.ret = NoReturn]

forecast_year_1(rr) == rr.latest_actual_year + 1

forecast_year_2(rr) == rr.latest_actual_year + 2

\* actual_years[1] of the years sorted most recent first
previous_actual_year(metrics) == MaxOf(DOMAIN metrics \ {MaxOf(DOMAIN metrics)})

\* a first panel that keeps every derived year
AllActualResult(metrics) == metrics

\* result = {previous_actual_year: ..., latest_actual_year: ...}, lines
\* 1126-1130: the two most recent derived years
ActualResult(metrics) ==
    [y \in {previous_actual_year(metrics), MaxOf(DOMAIN metrics)} |-> metrics[y]]

\* the "simple forecast" block of pull_key_metrics (three copies in the code)
SimpleForecasts(rr) ==
    LET latest == rr.latest_actual_year
        previous == previous_actual_year(rr.metrics)
        forecast_1 == forecast_next_fiscal_year(rr.metrics[latest],
                                                Get(rr.metrics, previous, EmptyDict))
        result_1 == Put(rr.result, forecast_year_1(rr), forecast_1)
        forecast_2 == forecast_next_fiscal_year(
                          Get(result_1, forecast_year_1(rr), rr.metrics[latest]),
                          rr.metrics[latest])
    IN Put(result_1, forecast_year_2(rr), forecast_2)

\* pull_key_metrics after generate_forecast_for_years has returned forecasts
\* (the empty dict for None) or has raised
AfterGenerate(rr, forecasts, raised) ==
    LET r1 == [rr EXCEPT !.raised = raised]
    IN IF rr.path = "cached"
       THEN IF ~raised /\ DOMAIN forecasts # {}
            THEN [r1 EXCEPT !.pc = "save_cached", !.cached = Update(rr.cached, forecasts)]
            ELSE Return(r1, rr.cached)
       ELSE IF ~raised /\ DOMAIN forecasts # {}
            THEN [r1 EXCEPT !.pc = "save_final",
                            !.result = Update(rr.result,
                                [y \in DOMAIN forecasts \cap
                                       {forecast_year_1(rr), forecast_year_2(rr)} |->
                                   forecasts[y]])]
            ELSE [r1 EXCEPT !.pc = "save_final", !.result = SimpleForecasts(rr)]

\* a loop that tries the same position again
RetryYear(rr) == [rr EXCEPT !.pc = "gen_year"]

\* a loop that ends after the first position it has handled
AbortYears(rr) == AfterGenerate(rr, rr.results, FALSE)

\* the loop of generate_forecast_for_years moves on from position rr.i
NextYear(rr) ==
    IF rr.i < Horizon
    THEN [rr EXCEPT !.pc = "gen_year", !.i = rr.i + 1]
    ELSE AfterGenerate(rr, rr.results, FALSE)

\* a test that looks at the income statements alone
StatementsOkIncomeOnly(st) == st[1] # <<>>

\* `if income_statements and balance_sheets and cash_flows`
StatementsOk(st) == st[1] # <<>> /\ st[2] # <<>> /\ st[3] # <<>>

\* the market data of an invocation: any of MarketInputs on the first one,
\* the same again on the following ones
MarketInputsOf(rr) ==
    IF rr.pc = "idle" THEN MarketInputs
    ELSE {<<rr.market_cap, rr.shares_outstanding, rr.current_price>>}

\* calculate_key_metrics on the statements a fetch of the given outcome
\* delivers, for each latest fiscal year on file and each market input: the
\* deriver is a pure function, so its values are computed once
DerivedMetrics ==
    [latest \in BaseYear..(BaseYear + MaxFilings), o \in FetchOutcomes, m \in MarketInputs |->
        LET st == fetch_financial_statements_fmp(latest, o)
        IN calculate_key_metrics(st[1], st[2], st[3], m[1], m[2], m[3])]

\* the derived panel of an invocation that fetched with outcome o
MetricsFor(rr, o) ==
    DerivedMetrics[source[rr.ticker], o,
                   <<rr.market_cap, rr.shares_outstanding, rr.current_price>>]

\* a call of pull_key_metrics, up to the cache check of line 1034
Begin(r) ==
    /\ run[r].pc \in {"idle", "done"}
    /\ hist' = Summary(run[r])
    /\ \E t \in Tickers, m \in MarketInputsOf(run[r]), ai \in BOOLEAN, ok \in BOOLEAN :
          LET cached == check_key_metrics_cache(store[t], ok)
              r0 == [IdleRun EXCEPT !.ticker = t, !.market_cap = m[1],
                                    !.shares_outstanding = m[2], !.current_price = m[3],
                                    !.use_openai_forecast = ai, !.cached = cached,
                                    !.read_failed = ~ok]
          IN run' = [run EXCEPT ![r] =
                        IF DOMAIN cached # {}
                        THEN IF ai
                             THEN [r0 EXCEPT !.pc = "cached_fetch", !.path = "cached"]
                             ELSE Return([r0 EXCEPT !.path = "cached"], cached)
                        ELSE [r0 EXCEPT !.pc = "fetch", !.path = "fresh"]]
    /\ UNCHANGED <<store, source, dv, cl, td, pp, sv>>

\* the cached branch, lines 1044-1065: fetch, re-derive the latest actual
\* year, decide whether forecasts are missing
FetchCached(r) ==
    /\ run[r].pc = "cached_fetch"
    /\ \E o \in FetchOutcomes :
          LET rr == [run[r] EXCEPT !.fetched = o]
              st == fetch_financial_statements_fmp(source[rr.ticker], o)
              temp_metrics == MetricsFor(rr, o)
              r1 == [rr EXCEPT !.latest_actual_year = MaxOf(DOMAIN temp_metrics)]
          IN run' = [run EXCEPT ![r] =
                        IF StatementsOk(st) /\ Cardinality(DOMAIN temp_metrics) >= 2
                        THEN IF forecast_year_1(r1) \notin DOMAIN rr.cached
                                \/ forecast_year_2(r1) \notin DOMAIN rr.cached
                             THEN [r1 EXCEPT !.pc = "gen_load"]
                             ELSE Return(r1, rr.cached)
                        ELSE Return(rr, rr.cached)]
    /\ UNCHANGED <<store, source, hist, dv, cl, td, pp, sv>>

\* the uncached branch, lines 1089-1130: fetch, derive, keep the two most
\* recent actual years
FetchFresh(r) ==
    /\ run[r].pc = "fetch"
    /\ \E o \in FetchOutcomes :
          LET rr == [run[r] EXCEPT !.fetched = o]
              st == fetch_financial_statements_fmp(source[rr.ticker], o)
              metrics == MetricsFor(rr, o)
              latest == MaxOf(DOMAIN metrics)
          IN run' = [run EXCEPT ![r] =
                        IF ~StatementsOk(st) THEN ReturnNone(rr)
                        ELSE IF Cardinality(DOMAIN metrics) < 2 THEN Return(rr, metrics)
                        ELSE [rr EXCEPT !.pc = "save_actual", !.metrics = metrics,
                                        !.latest_actual_year = latest,
                                        !.result = ActualResult(metrics)]]
    /\ UNCHANGED <<store, source, hist, dv, cl, td, pp, sv>>

\* lines 1132-1137 and 1192-1204: save the actual years, then either enter
\* the forecaster or use the simple forecast
SaveActual(r) ==
    /\ run[r].pc = "save_actual"
    /\ \E ok \in BOOLEAN :
          LET rr == [run[r] EXCEPT !.write_failed = @ \/ ~ok]
          IN /\ store' = [store EXCEPT ![rr.ticker] = save_key_metrics(@, rr.result, ok)]
             /\ run' = [run EXCEPT ![r] =
                           IF rr.use_openai_forecast
                           THEN [rr EXCEPT !.pc = "gen_load"]
                           ELSE [rr EXCEPT !.pc = "save_final",
                                           !.result = SimpleForecasts(rr)]]
    /\ UNCHANGED <<source, hist, dv, cl, td, pp, sv>>

\* generate_forecast_for_years, lines 523-535: load the cache
GenLoad(r) ==
    /\ run[r].pc = "gen_load"
    /\ \E o \in LoadOutcomes :
          LET rr == [run[r] EXCEPT !.read_failed = @ \/ o # "ok"]
              all_data == load_all_data_from_cache(store[rr.ticker], o = "ok")
          IN run' = [run EXCEPT ![r] =
                        IF o = "raise" THEN AfterGenerate(rr, EmptyDict, TRUE)
                        ELSE IF ~all_data.has_key_metrics
                             THEN AfterGenerate(rr, EmptyDict, FALSE)
                        ELSE [rr EXCEPT !.pc = "gen_year", !.all_data = all_data,
                                        !.loaded = all_data.metrics,
                                        !.results = EmptyDict, !.i = 1]]
    /\ UNCHANGED <<store, source, hist, dv, cl, td, pp, sv>>

\* one iteration of the loop of generate_forecast_for_years, lines 538-561:
\* accept the cached year, or call the capability
GenYear(r) ==
    /\ run[r].pc = "gen_year"
    /\ LET rr == run[r]
           forecast_year == rr.latest_actual_year + rr.i
           previous_year == forecast_year - 1
           metrics == rr.all_data.metrics
       IN IF ~rr.all_data.has_key_metrics
          THEN \* all_data['key_metrics'] is None after a failed reload: TypeError
               run' = [run EXCEPT ![r] = AfterGenerate(rr, EmptyDict, TRUE)]
          ELSE IF ~force_regenerate /\ forecast_year \in DOMAIN metrics
          THEN run' = [run EXCEPT ![r] =
                          NextYear([rr EXCEPT !.results =
                                       Put(rr.results, forecast_year, metrics[forecast_year])])]
          ELSE \E o \in CapOutcomes :
                  LET context == IF rr.i > 1 /\ previous_year \in DOMAIN rr.results
                                 THEN Put(metrics, previous_year, rr.results[previous_year])
                                 ELSE metrics
                      forecast == generate_forecast_with_openai(forecast_year, o)
                      r1 == [rr EXCEPT !.all_data.metrics = context,
                                       !.calls = Append(@, <<forecast_year, o>>),
                                       !.contexts = Append(@, context)]
                  IN run' = [run EXCEPT ![r] =
                                IF DOMAIN forecast = {}
                                THEN NextYear(r1)
                                ELSE [r1 EXCEPT !.pc = "gen_save", !.forecast = forecast]]
    /\ UNCHANGED <<store, source, hist, dv, cl, td, pp, sv>>

\* lines 563-569: save the forecast, reload the cache
GenSave(r) ==
    /\ run[r].pc = "gen_save"
    /\ \E o \in {"ok", "write_fail", "reload_fail"} :
          LET rr == run[r]
              forecast_year == rr.latest_actual_year + rr.i
              row == save_forecast_to_cache(store[rr.ticker], forecast_year, rr.forecast,
                                            o # "write_fail")
              r1 == [rr EXCEPT !.forecast = EmptyDict]
          IN /\ store' = [store EXCEPT ![rr.ticker] = row]
             /\ run' = [run EXCEPT ![r] =
                           IF o = "write_fail"
                           THEN NextYear([r1 EXCEPT !.write_failed = TRUE])
                           ELSE NextYear([r1 EXCEPT
                                    !.results = Put(rr.results, forecast_year, rr.forecast),
                                    !.all_data = load_all_data_from_cache(row, o = "ok"),
                                    !.read_failed = @ \/ o # "ok"])]
    /\ UNCHANGED <<source, hist, dv, cl, td, pp, sv>>

\* lines 1206-1210: save the panel with forecasts and return it
SaveFinal(r) ==
    /\ run[r].pc = "save_final"
    /\ \E ok \in BOOLEAN :
          LET rr == [run[r] EXCEPT !.write_failed = @ \/ ~ok]
          IN /\ store' = [store EXCEPT ![rr.ticker] = save_key_metrics(@, rr.result, ok)]
             /\ run' = [run EXCEPT ![r] = Return(rr, rr.result)]
    /\ UNCHANGED <<source, hist, dv, cl, td, pp, sv>>

\* lines 1078-1087: save the updated cached panel and return it
SaveCached(r) ==
    /\ run[r].pc = "save_cached"
    /\ \E ok \in BOOLEAN :
          LET rr == [run[r] EXCEPT !.write_failed = @ \/ ~ok]
          IN /\ store' = [store EXCEPT ![rr.ticker] = save_key_metrics(@, rr.cached, ok)]
             /\ run' = [run EXCEPT ![r] = Return(rr, rr.cached)]
    /\ UNCHANGED <<source, hist, dv, cl, td, pp, sv>>

\* the company files a new annual report: the source reports one more year.
\* An invocation fetches the statements once, so a filing during it is seen
\* by that fetch or by none: it is placed before or after the invocation.
NewFiling(t) ==
    /\ source[t] < BaseYear + MaxFilings
    /\ \A r \in Runs : run[r].pc \in {"idle", "done"}
    /\ source' = [source EXCEPT ![t] = @ + 1]
    /\ UNCHANGED <<store, run, hist, dv, cl, td, pp, sv>>

NoDerive == [pc |-> "off"]

NoClassify == [pc |-> "off"]

NoTesla == [pc |-> "off"]

NoPrices == [pc |-> "off"]

NoSave == [pc |-> "off"]

Init ==
    /\ store = [t \in Tickers |-> NoRow]
    /\ source = [t \in Tickers |-> BaseYear]
    /\ run = [r \in Runs |-> IdleRun]
    /\ hist = NoHist
    /\ dv = NoDerive
    /\ cl = NoClassify
    /\ td = NoTesla
    /\ pp = NoPrices
    /\ sv = NoSave

Next ==
    \/ \E r \in Runs : Begin(r)
    \/ \E r \in Runs : FetchCached(r)
    \/ \E r \in Runs : FetchFresh(r)
    \/ \E r \in Runs : SaveActual(r)
    \/ \E r \in Runs : GenLoad(r)
    \/ \E r \in Runs : GenYear(r)
    \/ \E r \in Runs : GenSave(r)
    \/ \E r \in Runs : SaveFinal(r)
    \/ \E r \in Runs : SaveCached(r)
    \/ \E t \in Tickers : NewFiling(t)

Spec == Init /\ [][Next]_vars

\* a step of an invocation that is under way: the external call of the
\* step (statement fetch, capability call, store access) returns or fails
RunStep(r) ==
    \/ FetchCached(r)
    \/ FetchFresh(r)
    \/ SaveActual(r)
    \/ GenLoad(r)
    \/ GenYear(r)
    \/ GenSave(r)
    \/ SaveFinal(r)
    \/ SaveCached(r)

NextLive ==
    \/ \E r \in Runs : Begin(r)
    \/ \E r \in Runs : RunStep(r)

\* every external call returns or fails in finite time, so an invocation
\* that can take a step eventually takes one
SpecLive == Init /\ [][NextLive]_vars /\ \A r \in Runs : WF_vars(RunStep(r))

(***************************************************************************)
(* Claims on the forecast step (checked under Spec)                        *)
(***************************************************************************)
Done(r) == run[r].pc = "done"

\* the run met no failing store read or write
CleanStore(rr) == ~rr.write_failed /\ ~rr.read_failed

\* a forecast step that established the latest actual year
ForecastStep(rr) ==
    rr.use_openai_forecast /\ rr.fetched = "full" /\ rr.latest_actual_year # 0

TargetYears(rr) == {forecast_year_1(rr), forecast_year_2(rr)}

\* the response makes generate_forecast_for_years skip the year
CapFailed(o) == o \in {"error", "nondict", "empty"}

\* items of a panel entry that are not growth rates
CarriedItems == {item \in forecast_items : ~EndsWithGrowth(item)}

\* the entry was derived from the filed statements of fiscal year y (every
\* forecast of the model differs from it in revenue)
FromStatements(entry, y) ==
    "revenue" \in DOMAIN entry /\ entry.revenue = Div(IncomeOf(y).revenue, Num(Million))

StoredPanel(t) == store[t].metrics_data

\* C1 as stated: a forecast step that establishes the latest actual year
\* returns a panel holding both latestActual+1 and latestActual+2, whatever
\* the capability did for each year.
C1_EveryRequestedYear ==
    \A r \in Runs :
        (Done(r) /\ ForecastStep(run[r]) /\ CleanStore(run[r])) =>
            /\ ~run[r].ret.none
            /\ TargetYears(run[r]) \subseteq DOMAIN run[r].ret.panel

\* C2 as stated: a forecast step that directly follows a forecast step on
\* the same ticker, statements and store makes no capability call and
\* returns the panel the first one returned.
C2_ForecastIdempotence ==
    \A r \in Runs :
        (/\ Done(r) /\ ForecastStep(run[r]) /\ CleanStore(run[r])
         /\ hist.valid /\ hist.latest_actual_year = run[r].latest_actual_year) =>
            /\ run[r].calls = <<>>
            /\ ~run[r].ret.none
            /\ run[r].ret.panel = hist.panel

\* C3 as stated: a forecast step on a stored panel that holds only actual
\* years returns the same actual-year entries and exactly the two forecast
\* years latestActual+1 and latestActual+2.
C3_ForecastCoverage ==
    \A r \in Runs :
        LET rr == run[r]
            actual == {y \in DOMAIN rr.cached : y <= rr.latest_actual_year}
        IN (/\ Done(r) /\ ForecastStep(rr) /\ CleanStore(rr) /\ rr.path = "cached"
            /\ actual = DOMAIN rr.cached) =>
               /\ ~rr.ret.none
               /\ \A y \in actual : y \in DOMAIN rr.ret.panel /\ rr.ret.panel[y] = rr.cached[y]
               /\ DOMAIN rr.ret.panel = actual \cup TargetYears(rr)

\* C4 as stated: when the capability fails for every requested year, the
\* step returns two forecast years, each with the latest actual year's
\* absolute values and margins and with every growth-rate field 0.
C4_FallbackDeterminism ==
    \A r \in Runs :
        LET rr == run[r]
            panel == rr.ret.panel
        IN (/\ Done(r) /\ ForecastStep(rr) /\ CleanStore(rr)
            /\ Len(rr.calls) = Horizon
            /\ \A k \in 1..Len(rr.calls) : CapFailed(rr.calls[k][2])) =>
               /\ ~rr.ret.none
               /\ \A y \in TargetYears(rr) :
                     /\ y \in DOMAIN panel
                     /\ \A item \in CarriedItems :
                           panel[y][item] = panel[rr.latest_actual_year][item]
                     /\ panel[y].revenue_growth = Zero
                     /\ panel[y].ebitda_growth = Zero
                     /\ panel[y].adj_eps_growth = Zero

\* C5 as stated: when the capability answers for latestActual+1 and fails
\* for latestActual+2, the final panel holds the capability's value under
\* latestActual+1 and the carry-forward of that entry under latestActual+2.
C5_MixedOutcome ==
    \A r \in Runs :
        LET rr == run[r]
            panel == rr.ret.panel
            y1 == forecast_year_1(rr)
            y2 == forecast_year_2(rr)
        IN (/\ Done(r) /\ ForecastStep(rr) /\ CleanStore(rr)
            /\ Len(rr.calls) = 2
            /\ rr.calls[1] = <<y1, "good">>
            /\ rr.calls[2][1] = y2 /\ CapFailed(rr.calls[2][2])) =>
               /\ ~rr.ret.none
               /\ y1 \in DOMAIN panel /\ panel[y1] = CapForecast(y1)
               /\ y2 \in DOMAIN panel
               /\ \A item \in CarriedItems : panel[y2][item] = panel[y1][item]

\* C6 as stated: when the stored panel holds a forecast entry for a year
\* that the run's statement fetch reports as an actual fiscal year, the
\* panel after the run holds the entry derived from the statements.
C6_FresherClassificationWins ==
    \A r \in Runs :
        LET rr == run[r]
        IN (Done(r) /\ rr.path = "cached" /\ ForecastStep(rr) /\ CleanStore(rr)) =>
              \A y \in DOMAIN rr.cached :
                 (y <= rr.latest_actual_year /\ ~FromStatements(rr.cached[y], y)) =>
                     /\ FromStatements(rr.ret.panel[y], y)
                     /\ FromStatements(StoredPanel(rr.ticker)[y], y)

\* the statement fetch did not deliver all three lists
FetchFailed(rr) == rr.fetched \in {"error", "partial"}

C8_WriteFailureReported ==
    \A r \in Runs : (Done(r) /\ run[r].write_failed) => run[r].ret.none

\* the forecaster or the code after it is at work
Forecasting(rr) == rr.pc \in {"gen_year", "gen_save", "save_final", "save_cached"}

\* the target years resolved so far, with their entries
Resolved(rr) ==
    Update(rr.results,
           [y \in DOMAIN rr.result \cap TargetYears(rr) |-> rr.result[y]])

\* the stored panel holds every entry of panel
Holds(t, panel) ==
    \A y \in DOMAIN panel : y \in DOMAIN StoredPanel(t) /\ StoredPanel(t)[y] = panel[y]

PanelCreated(rr) ==
    /\ rr.path = "fresh" /\ rr.fetched = "full" /\ ~rr.write_failed
    /\ rr.pc \in {"gen_load", "gen_year", "gen_save", "save_final", "done"}

\* the years of the stored panel up to the latest fiscal year of the source
StoredActualYears(rr) ==
    {y \in DOMAIN StoredPanel(rr.ticker) : y <= rr.latest_actual_year}

\* C14 as stated: the panel stored on the first successful statement fetch
\* has one actual-year entry for every fiscal year the source returned.
C14_PanelHoldsEveryFetchedYear ==
    \A r \in Runs :
        PanelCreated(run[r]) => StoredActualYears(run[r]) = DOMAIN run[r].metrics

\* C14 amended: the panel stored on the first successful statement fetch has
\* an actual-year entry for exactly the two most recent fiscal years the
\* source returned, each the entry derived from the statements; an older
\* fetched year is used for the growth rates only and is not stored.
C14_PanelHoldsTwoLatestYears ==
    \A r \in Runs :
        LET rr == run[r]
        IN PanelCreated(rr) =>
              /\ StoredActualYears(rr) =
                     {previous_actual_year(rr.metrics), rr.latest_actual_year}
              /\ \A y \in StoredActualYears(rr) :
                     StoredPanel(rr.ticker)[y] = rr.metrics[y]

\* C14 witness: three fiscal years were fetched and derived and the first
\* panel is stored
C14_Witness ==
    \E r \in Runs :
        /\ PanelCreated(run[r]) /\ run[r].pc = "gen_load"
        /\ Cardinality(DOMAIN run[r].metrics) = FetchLimit
        /\ DOMAIN StoredPanel(run[r].ticker) # {}

\* the response is not an object with exactly the metric field names
Malformed(o) == o \in {"nondict", "empty", "badkeys"}

\* C16: a malformed capability response is never stored as a forecast-year
\* entry, and the year it was asked for is resolved by the fallback: the
\* returned panel holds the carry-forward of the year before it.
C16_MalformedIsFailure ==
    /\ \A t \in Tickers : \A y \in DOMAIN StoredPanel(t) : StoredPanel(t)[y] # BadKeys
    /\ \A r \in Runs :
          LET rr == run[r]
              panel == rr.ret.panel
          IN (Done(r) /\ ForecastStep(rr) /\ CleanStore(rr)) =>
                \A k \in 1..Len(rr.calls) :
                   Malformed(rr.calls[k][2]) =>
                      LET y == rr.calls[k][1]
                      IN /\ ~rr.ret.none
                         /\ y \in DOMAIN panel /\ y - 1 \in DOMAIN panel
                         /\ DOMAIN panel[y] = forecast_items
                         /\ \A item \in CarriedItems : panel[y][item] = panel[y - 1][item]

\* C22: target years are processed in ascending order, and whenever the
\* capability is invoked for year N+1 the metrics handed to it contain the
\* entry for year N.
C22_SequentialContext ==
    \A r \in Runs :
       LET rr == run[r]
       IN \A k \in 1..Len(rr.calls) :
             /\ \A j \in 1..(k - 1) : rr.calls[j][1] < rr.calls[k][1]
             /\ rr.calls[k][1] - 1 \in DOMAIN rr.contexts[k]

C24_SingleAttempt ==
    \A r \in Runs :
       LET rr == run[r]
       IN /\ Len(rr.calls) <= Horizon
          /\ \A j, k \in 1..Len(rr.calls) : j # k => rr.calls[j][1] # rr.calls[k][1]

\* a finished run whose capability failed for both target years
C24_Witness ==
    \E r \in Runs :
       LET rr == run[r]
       IN /\ rr.pc = "done" /\ Len(rr.calls) = 2
          /\ rr.calls[1][2] = "error" /\ rr.calls[2][2] = "error"

\* the capability was called for latestActual+1 and did not answer with an
\* object; the forecaster is past that year
FirstYearFailed(rr) ==
    /\ Len(rr.calls) >= 1
    /\ rr.calls[1][1] = forecast_year_1(rr)
    /\ CapFailed(rr.calls[1][2])

\* C25: after the capability has failed for latestActual+1 the forecaster
\* still handles latestActual+2 in the same run (it calls the capability
\* for it or accepts the stored value), and no error reaches its caller.
C25_FailureDoesNotAbort ==
    \A r \in Runs :
       LET rr == run[r]
           y2 == forecast_year_2(rr)
       IN (FirstYearFailed(rr) /\ rr.pc # "gen_year") =>
             /\ ~rr.raised
             /\ \/ (Len(rr.calls) = 2 /\ rr.calls[2][1] = y2)
                \/ (y2 \in DOMAIN rr.loaded /\ (rr.pc # "done" => y2 \in DOMAIN rr.results))

\* the capability raised for latestActual+1 and answered for latestActual+2,
\* and the run has returned a panel
C25_Witness ==
    \E r \in Runs :
       LET rr == run[r]
       IN /\ rr.pc = "done" /\ ~rr.ret.none /\ ~rr.raised
          /\ rr.calls = <<<<forecast_year_1(rr), "error">>, <<forecast_year_2(rr), "good">>>>
          /\ forecast_year_2(rr) \in DOMAIN rr.ret.panel

\* C26: every invocation of pull_key_metrics that has started eventually
\* returns to its caller, on each of its paths.
C26_Termination ==
    \A r \in Runs : (run[r].pc \notin {"idle", "done"}) ~> (run[r].pc = "done")

\* an invocation on the cached path has returned after two capability
\* calls, one of which failed
C26_Witness ==
    \E r \in Runs :
       LET rr == run[r]
       IN /\ rr.pc = "done" /\ rr.path = "cached" /\ ~rr.ret.none
          /\ Len(rr.calls) = 2
          /\ CapFailed(rr.calls[1][2]) /\ ~CapFailed(rr.calls[2][2])

\* C30: whenever pull_key_metrics has returned a panel and no store write of
\* the run failed, the panel stored under the ticker's key_metrics key has the
\* same years and the same entries as the returned panel.
C30_ReturnedEqualsStored ==
    \A r \in Runs :
       (Done(r) /\ ~run[r].ret.none /\ ~run[r].write_failed)
       => /\ store[run[r].ticker].present
          /\ StoredPanel(run[r].ticker) = run[r].ret.panel

(***************************************************************************)
(* The Metrics Deriver on its own: calculate_key_metrics applied to        *)
(* bounded inputs                                                          *)
(***************************************************************************)
\* longest statement list handed to the deriver
MaxStmts == 3

\* the shapes an income statement of fiscal year y takes: all fields
\* filled; revenue null and a loss; no revenue key; no date but a
\* calendarYear, no operatingIncome but an ebit, revenue 0; neither date nor
\* calendarYear
IncomeShapes(y) ==
    {IncomeOf(y),
     [IncomeOf(y) EXCEPT !.revenue = Null, !.netIncome = Num(0 - 2 * Million)],
     [date |-> y, ebitda |-> Num(3 * Million), operatingIncome |-> Num(2 * Million),
      netIncome |-> Num(Million)],
     [calendarYear |-> y, revenue |-> Zero, ebitda |-> Num(3 * Million),
      ebit |-> Num(2 * Million), netIncome |-> Num(Million)],
     [revenue |-> Num(10 * Million), netIncome |-> Num(Million)]}

\* the income lists of length n, most recent first, the first of year top
IncomeLists(top, n) ==
    {sq \in [1..n -> UNION {IncomeShapes(top - k + 1) : k \in 1..n}] :
        \A k \in 1..n : sq[k] \in IncomeShapes(top - k + 1)}

\* market_cap, shares_outstanding, current_price as a caller may pass them
MarketCaps == {Null, Zero, Num(500 * Million)}

ShareCounts == {Null, Num(10 * Million)}

Prices == {Null, Num(50)}

DeriveInputs ==
    {[pc |-> "in", income_statements |-> inc,
      balance_sheets |-> Window("balance-sheet-statement", BaseYear, nb),
      cash_flows |-> Window("cash-flow-statement", BaseYear, nc),
      market_cap |-> mc, shares_outstanding |-> so, current_price |-> cp,
      metrics |-> EmptyDict] :
        inc \in UNION {IncomeLists(BaseYear, n) : n \in 0..MaxStmts},
        nb \in 0..MaxStmts, nc \in 0..MaxStmts,
        mc \in MarketCaps, so \in ShareCounts, cp \in Prices}

InitDerive ==
    /\ store = [t \in Tickers |-> NoRow]
    /\ source = [t \in Tickers |-> BaseYear]
    /\ run = [r \in Runs |-> IdleRun]
    /\ hist = NoHist
    /\ dv \in DeriveInputs
    /\ cl = NoClassify
    /\ td = NoTesla
    /\ pp = NoPrices
    /\ sv = NoSave

Derive ==
    /\ dv.pc = "in"
    /\ dv' = [dv EXCEPT !.pc = "out",
                        !.metrics = calculate_key_metrics(
                                        dv.income_statements, dv.balance_sheets,
                                        dv.cash_flows, dv.market_cap,
                                        dv.shares_outstanding, dv.current_price)]
    /\ UNCHANGED <<store, source, run, hist, cl, td, pp, sv>>

NextDerive == Derive

SpecDerive == InitDerive /\ [][NextDerive]_vars

(***************************************************************************)
(* Claims on the Metrics Deriver (checked under SpecDerive)                *)
(***************************************************************************)
Derived == dv.pc = "out"

AlignedPositions ==
    1..Min3(Len(dv.income_statements), Len(dv.balance_sheets), Len(dv.cash_flows))

\* the year label an income statement carries, 0 if it carries none
YearLabel(income) ==
    IF "date" \in DOMAIN income THEN income.date
    ELSE IF "calendarYear" \in DOMAIN income THEN income.calendarYear
    ELSE 0

\* the statement reports no revenue: the key is missing, null or 0
NoRevenue(income) ==
    "revenue" \notin DOMAIN income \/ income.revenue = Null \/ income.revenue = Zero

\* some field of some entry is the result of a division by 0
RaisedZeroDivision(metrics) ==
    \E y \in DOMAIN metrics : \E f \in DOMAIN metrics[y] :
        metrics[y][f] = ZeroDivisionError

\* C11: for every derived year whose revenue is 0, null or missing,
\* net_margin, ebitda_margin and ebit_margin are exactly 0, and the
\* derivation divides by 0 nowhere.
C11_ZeroDenominatorSafety ==
    Derived =>
        /\ ~RaisedZeroDivision(dv.metrics)
        /\ \A i \in AlignedPositions :
              LET income == dv.income_statements[i]
                  y == YearLabel(income)
              IN (y # 0 /\ NoRevenue(income)) =>
                    /\ y \in DOMAIN dv.metrics
                    /\ dv.metrics[y].net_margin = Zero
                    /\ dv.metrics[y].ebitda_margin = Zero
                    /\ dv.metrics[y].ebit_margin = Zero

\* C11 witness: a derivation with a year of revenue 0, a year of null
\* revenue and a year without a revenue key, each with non-zero earnings
C11_Witness ==
    /\ Derived
    /\ \E i, j, k \in AlignedPositions :
          /\ YearLabel(dv.income_statements[i]) # 0
          /\ YearLabel(dv.income_statements[j]) # 0
          /\ YearLabel(dv.income_statements[k]) # 0
          /\ "revenue" \notin DOMAIN dv.income_statements[i]
          /\ "revenue" \in DOMAIN dv.income_statements[j]
          /\ dv.income_statements[j].revenue = Null
          /\ "revenue" \in DOMAIN dv.income_statements[k]
          /\ dv.income_statements[k].revenue = Zero
          /\ dv.metrics[YearLabel(dv.income_statements[k])].adj_net_income # Zero

C13_OneEntryPerPosition ==
    Derived => Cardinality(DOMAIN dv.metrics) = Cardinality(AlignedPositions)

\* C13 amended: the panel has one entry for each year label carried by the
\* income statement of an aligned position and no other entry; a position
\* whose income statement has neither date nor calendarYear gets no entry,
\* and no labelled position is dropped, whatever its fields compute to.
C13_OneEntryPerLabelledPosition ==
    Derived =>
        DOMAIN dv.metrics =
            {YearLabel(dv.income_statements[i]) : i \in AlignedPositions} \ {0}

\* C13 witness: three aligned positions, one without a year label, one with
\* no revenue
C13_Witness ==
    /\ Derived /\ Cardinality(AlignedPositions) = 3
    /\ Cardinality(DOMAIN dv.metrics) = 2
    /\ \E i \in AlignedPositions :
          /\ YearLabel(dv.income_statements[i]) # 0
          /\ NoRevenue(dv.income_statements[i])

(***************************************************************************)
(* The actual/forecast split of the forecaster module:                     *)
(* prepare_forecast_prompt and forecast_next_fiscal_year of                *)
(* financial_forecastor_agent.py, applied to bounded stored panels         *)
(***************************************************************************)
\* how far the wall clock may be ahead of the latest fiscal year on file
MaxClockLag == 2

\* the [:3] of prepare_forecast_prompt: at most three actual years are shown
PromptYears == 3

\* the k largest elements of a set of years
RECURSIVE Largest(_, _)
Largest(S, k) ==
    IF k = 0 \/ S = {} THEN {}
    ELSE {MaxOf(S)} \cup Largest(S \ {MaxOf(S)}, k - 1)

\* actual_years of prepare_forecast_prompt: the years up to the calendar
\* year of datetime.now(), the three most recent of them
PromptActualYears(metrics, current_year) ==
    Largest({y \in DOMAIN metrics : y <= current_year}, PromptYears)

\* forecast_years of prepare_forecast_prompt
PromptForecastYears(metrics, current_year) ==
    {y \in DOMAIN metrics : y > current_year}

\* forecast_next_fiscal_year of the forecaster, up to the choice of the
\* year to forecast: 0 stands for `return None` (no actual year found)
AgentForecastYear(metrics, current_year, years_ahead) ==
    LET actual_years == {y \in DOMAIN metrics : y <= current_year}
    IN IF actual_years = {} THEN 0 ELSE MaxOf(actual_years) + years_ahead

\* a stored panel: actual years up to latest, some forecast years after it
StoredPanels(latest) ==
    {[y \in ((latest - n)..latest) \cup F |->
         IF y <= latest THEN "actual" ELSE "forecast"] :
        n \in 0..2, F \in SUBSET ((latest + 1)..(latest + 3))}

ClassifyInputs ==
    {[pc |-> "in", metrics |-> m, latest_statement_year |-> latest,
      current_year |-> now, years_ahead |-> ahead,
      actual_years |-> {}, forecast_years |-> {}, forecast_year |-> 0] :
        latest \in BaseYear..(BaseYear + MaxFilings),
        m \in UNION {StoredPanels(l) : l \in BaseYear..(BaseYear + MaxFilings)},
        now \in BaseYear..(BaseYear + MaxFilings + MaxClockLag),
        ahead \in 1..Horizon}

InitClassify ==
    /\ store = [t \in Tickers |-> NoRow]
    /\ source = [t \in Tickers |-> BaseYear]
    /\ run = [r \in Runs |-> IdleRun]
    /\ hist = NoHist
    /\ dv = NoDerive
    /\ td = NoTesla
    /\ pp = NoPrices
    /\ sv = NoSave
    /\ cl \in {c \in ClassifyInputs :
                 /\ c.current_year >= c.latest_statement_year
                 /\ c.metrics \in StoredPanels(c.latest_statement_year)}

\* prepare_forecast_prompt splits the stored panel
PreparePrompt ==
    /\ cl.pc = "in"
    /\ cl' = [cl EXCEPT !.pc = "prompt",
                        !.actual_years = PromptActualYears(cl.metrics, cl.current_year),
                        !.forecast_years = PromptForecastYears(cl.metrics, cl.current_year)]
    /\ UNCHANGED <<store, source, run, hist, dv, td, pp, sv>>

\* forecast_next_fiscal_year of the forecaster chooses the year to forecast
ChooseForecastYear ==
    /\ cl.pc = "in"
    /\ cl' = [cl EXCEPT !.pc = "chosen",
                        !.forecast_year = AgentForecastYear(cl.metrics, cl.current_year,
                                                            cl.years_ahead)]
    /\ UNCHANGED <<store, source, run, hist, dv, td, pp, sv>>

NextClassify == PreparePrompt \/ ChooseForecastYear

SpecClassify == InitClassify /\ [][NextClassify]_vars

\* C15: wherever the forecaster splits the panel's years, a year is treated
\* as forecast exactly when it is greater than the latest fiscal year
\* reported by the statement source, whatever the wall-clock year: the
\* prompt lists as forecast the years after that year and as actual only
\* years up to it, and the next year to forecast is that year plus
\* years_ahead.
C15_ClassifiedByStatementYear ==
    /\ cl.pc = "prompt" =>
          /\ cl.forecast_years = {y \in DOMAIN cl.metrics : y > cl.latest_statement_year}
          /\ \A y \in cl.actual_years : y <= cl.latest_statement_year
    /\ cl.pc = "chosen" =>
          cl.forecast_year = cl.latest_statement_year + cl.years_ahead

(***************************************************************************)
(* pull_tesla_data: the price-performance series and the company snapshot  *)
(* behind their completeness checks, then the key metrics                  *)
(***************************************************************************)
\* a text value; Null is the SQL NULL / Python None of any column
Text(t) == <<t>>

\* the days pull_tesla_data is run for: as_of_date and end_date
Dates == {1, 2}

\* start_date of the default call: end_date - 365 days
YearBefore(end_date) == end_date - 365

BaseIndexes == {"SPY", "QQQ"}

\* the market data the API serves changes from one fetch to the next
Quotes == {1, 2}

\* the quotes a company fetch of the given outcome is enumerated with
QuotesOf(outcome) == IF outcome = "full" THEN Quotes ELSE {1}

\* json.dumps: a non-empty text holding the value; json.loads reads it back
JsonDumps(value) == [json |-> value]

JsonLoads(text) == text.json

\* INSERT without OR REPLACE: the old row of the id stays
InsertOnly(table, row) == table \cup {row}

\* INSERT OR REPLACE INTO a table whose primary key is id
InsertOrReplace(table, row) == {r \in table : r.id # row.id} \cup {row}

\* SELECT ... WHERE id = ?; fetchone(): a row of that id, else no row
FetchOne(table, id) ==
    IF \E r \in table : r.id = id
    THEN {CHOOSE r \in table : r.id = id}
    ELSE {}

\* ---- price performance -------------------------------------------------
\* a list left in the order the API served it
NoSort(historical) == historical

\* historical.sort(key=lambda x: x['date']): stable, oldest first
RECURSIVE SortByDate(_)
SortByDate(historical) ==
    IF historical = <<>> THEN <<>>
    ELSE LET n == Len(historical)
             x == historical[n]
             sorted == SortByDate(SubSeq(historical, 1, n - 1))
             k == Cardinality({i \in 1..(n - 1) : sorted[i].date <= x.date})
         IN SubSeq(sorted, 1, k) \o <<x>> \o SubSeq(sorted, k + 1, n - 1)

\* the `processed` list of fetch_historical_prices
Rebased(historical, first_close) ==
    [k \in 1..Len(historical) |->
        [date |-> historical[k].date, close |-> historical[k].close,
         rebased_close |-> Mul(Div(historical[k].close, first_close), Hundred)]]

\* fetch_historical_prices of fetch_price_performance_fmp on the response
\* (status_code, list of observations); None as <<>>.  A close that is None
\* makes the division raise TypeError, which the function turns into None
fetch_historical_prices(status_code, data) ==
    IF status_code # 200 \/ data = <<>> THEN <<>>
    ELSE LET historical == SortByDate(data)
             first_close == historical[1].close
         IN IF first_close = Zero THEN <<>>
            ELSE IF \E k \in 1..Len(historical) : IsNull(historical[k].close) THEN <<>>
            ELSE Rebased(historical, first_close)

\* the processed series of one symbol as the API serves it
Series(q) == fetch_historical_prices(200, <<[date |-> 1, close |-> Num(100 + q)]>>)

PriceOutcomes == {"ok", "stock_failed", "index_failed"}

\* fetch_price_performance_fmp: (stock_data, index_data), None as <<>>
fetch_price_performance_fmp(outcome, q) ==
    CASE outcome = "ok" -> <<Series(q), Series(q + 10)>>
      [] outcome = "stock_failed" -> <<<<>>, Series(q + 10)>>
      [] OTHER -> <<Series(q), <<>>>>

\* save_price_performance: the table after the call (ok: the write succeeds)
save_price_performance(table, ticker, base_index, start_date, end_date, stock_data, index_data, ok) ==
    IF ok
    THEN InsertOrReplace(table,
             [id |-> <<ticker, start_date, end_date>>, base_index |-> base_index,
              stock_data |-> JsonDumps(stock_data), index_data |-> JsonDumps(index_data)])
    ELSE table

\* check_price_performance_cache: the cached dict, None as EmptyDict
check_price_performance_cache(table, ticker, start_date, end_date, base_index, ok) ==
    LET result == FetchOne(table, <<ticker, start_date, end_date>>)
    IN IF ~ok \/ result = {} THEN EmptyDict
       ELSE LET row == CHOOSE r \in result : TRUE
                stock_data == JsonLoads(row.stock_data)
                index_data == JsonLoads(row.index_data)
            IN IF stock_data # <<>> /\ index_data # <<>>
               THEN [stock_data |-> stock_data, index_data |-> index_data]
               ELSE EmptyDict

\* ---- company data ------------------------------------------------------
required_fields ==
    {"shares_outstanding", "market_cap", "currency", "free_float_pct",
     "avg_daily_volume_3m_shares", "avg_daily_volume_3m_usd",
     "volatility_90d", "52w_high", "52w_low"}

critical_fields == {"shares_outstanding", "market_cap", "52w_high", "52w_low"}

\* the columns of company_data the model keeps
company_columns == required_fields \cup {"fx_rate"}

\* what the API calls of fetch_company_data_fmp deliver: every endpoint
\* answers; the shares-float endpoint returns nothing; the price history is
\* empty; the quote endpoint fails; the profile has an empty currency; a
\* request raises
CompanyOutcomes ==
    {"full", "no_float", "no_history", "no_quote", "empty_currency", "exception"}

\* `result` of fetch_company_data_fmp before its validation (line 526)
CompanyResult(outcome, q) ==
    LET full == [f \in company_columns |->
                    CASE f = "shares_outstanding" -> Num(10)
                      [] f = "market_cap" -> Num(500 + q)
                      [] f = "currency" -> Text("USD")
                      [] f = "free_float_pct" -> Num(60)
                      [] f = "avg_daily_volume_3m_shares" -> Num(7)
                      [] f = "avg_daily_volume_3m_usd" -> Num(350 + q)
                      [] f = "volatility_90d" -> Num(30)
                      [] f = "52w_high" -> Num(60)
                      [] f = "52w_low" -> Num(40)
                      [] OTHER -> Num(1)]
    IN CASE outcome = "no_float" ->
                [f \in company_columns \ {"free_float_pct"} |-> full[f]]
         [] outcome = "no_history" ->
                [full EXCEPT !["volatility_90d"] = Null]
         [] outcome = "no_quote" ->
                [f \in company_columns \ {"52w_high", "52w_low", "avg_daily_volume_3m_shares"} |->
                    IF f = "avg_daily_volume_3m_usd" THEN Null ELSE full[f]]
         [] outcome = "empty_currency" ->
                [full EXCEPT !["currency"] = Text("")]
         [] OTHER -> full

\* lines 527-552 of fetch_company_data_fmp: defaults for the missing fields,
\* None (EmptyDict) when a critical field is missing
ValidateCompanyData(result) ==
    LET missing_fields == {f \in required_fields : Get(result, f, Null) = Null}
        defaults == [f \in missing_fields \cap
                        {"free_float_pct", "avg_daily_volume_3m_shares",
                         "avg_daily_volume_3m_usd", "volatility_90d"} |->
                        IF f = "free_float_pct" THEN Null ELSE Zero]
    IN IF missing_fields \cap critical_fields # {} THEN EmptyDict
       ELSE Update(result, defaults)

\* fetch_company_data_fmp: the dict, None as EmptyDict
fetch_company_data_fmp(outcome, q) ==
    IF outcome = "exception" THEN EmptyDict
    ELSE ValidateCompanyData(CompanyResult(outcome, q))

\* save_company_data: the table after the call
save_company_data(table, ticker, as_of_date, data_dict, ok) ==
    IF ok
    THEN InsertOrReplace(table,
             [id |-> <<ticker, as_of_date>>,
              columns |-> [f \in company_columns |->
                             CASE f = "currency" -> Get(data_dict, f, Text("USD"))
                               [] f = "fx_rate" -> Get(data_dict, f, Num(1))
                               [] OTHER -> Get(data_dict, f, Null)]])
    ELSE table

\* a completeness check that also rejects an empty text
AllFieldsNonEmpty(columns) ==
    \A f \in required_fields : columns[f] # Null /\ columns[f] # Text("")

\* all(field is not None for field in required_fields)
AllFieldsNotNone(columns) == \A f \in required_fields : columns[f] # Null

\* a check that never finds a record
check_company_data_miss(table, ticker, as_of_date, ok) == EmptyDict

\* check_company_data_cache: the cached dict, None as EmptyDict
check_company_data_cache(table, ticker, as_of_date, ok) ==
    LET result == FetchOne(table, <<ticker, as_of_date>>)
    IN IF ~ok \/ result = {} THEN EmptyDict
       ELSE LET row == CHOOSE r \in result : TRUE
            IN IF AllFieldsNotNone(row.columns)
               THEN [row.columns EXCEPT !["fx_rate"] = Or(@, Num(1))]
               ELSE EmptyDict

\* ---- pull_tesla_data ---------------------------------------------------
\* `if cached_pp:` / `if cached_cd:` is false: the fetch branch is taken
AlwaysFetch(cached) == TRUE

NeedsFetch(cached) == DOMAIN cached = {}

\* the panels the key-metrics step may leave in the store
KeyMetricsPanels == {[y \in {BaseYear} |-> CapForecast(BaseYear)],
                     [y \in {BaseYear, BaseYear + 1} |-> CapForecast(y)]}

IdleTesla ==
    [pc |-> "idle", ticker |-> "TSLA", base_index |-> "SPY",
     start_date |-> 0, end_date |-> 0, as_of_date |-> 0,
     price_performance |-> {},      \* the table price_performance
     company_data |-> {},           \* the table company_data
     cached_pp |-> EmptyDict, cached_cd |-> EmptyDict,
     result_pp |-> EmptyDict, result_cd |-> EmptyDict,
     pp_fetches |-> 0,              \* history: external price fetches of the run
     cd_fetches |-> 0,              \* history: external company fetches of the run
     pp_read_ok |-> TRUE,           \* history: the price check could read the store
     cd_read_ok |-> TRUE,           \* history: the company check could read the store
     cd_replaced |-> FALSE,         \* history: the run's put replaced another snapshot
     last_pp |-> EmptyDict,         \* history: id -> row of the last successful put
     last_cd |-> EmptyDict,
     last_km |-> EmptyDict]

\* pull_tesla_data is called: dates and base index are fixed (lines 1236-1256)
TeslaBegin ==
    /\ td.pc \in {"idle", "done"}
    /\ \E b \in BaseIndexes, d \in Dates :
          td' = [td EXCEPT !.pc = "pp_check", !.base_index = b,
                           !.start_date = YearBefore(d), !.end_date = d, !.as_of_date = d,
                           !.cached_pp = EmptyDict, !.cached_cd = EmptyDict,
                           !.result_pp = EmptyDict, !.result_cd = EmptyDict,
                           !.pp_fetches = 0, !.cd_fetches = 0,
                           !.pp_read_ok = TRUE, !.cd_read_ok = TRUE,
                           !.cd_replaced = FALSE]
    /\ UNCHANGED <<store, source, run, hist, dv, cl, pp, sv>>

\* lines 1258-1263: the completeness check of the price series
CheckPrice ==
    /\ td.pc = "pp_check"
    /\ \E ok \in BOOLEAN :
          LET cached_pp == check_price_performance_cache(
                               td.price_performance, td.ticker, td.start_date,
                               td.end_date, td.base_index, ok)
              t1 == [td EXCEPT !.cached_pp = cached_pp, !.pp_read_ok = ok]
          IN td' = IF NeedsFetch(cached_pp)
                   THEN [t1 EXCEPT !.pc = "pp_fetch"]
                   ELSE [t1 EXCEPT !.pc = "cd_check", !.result_pp = cached_pp]
    /\ UNCHANGED <<store, source, run, hist, dv, cl, pp, sv>>

\* lines 1264-1280: fetch the two series and save them
FetchPrice ==
    /\ td.pc = "pp_fetch"
    /\ \E o \in PriceOutcomes, ok \in BOOLEAN :
          LET data == fetch_price_performance_fmp(o, 1)
              id == <<td.ticker, td.start_date, td.end_date>>
              table == save_price_performance(
                           td.price_performance, td.ticker, td.base_index,
                           td.start_date, td.end_date, data[1], data[2], ok)
              t1 == [td EXCEPT !.pc = "cd_check", !.pp_fetches = @ + 1]
          IN td' = IF data[1] # <<>> /\ data[2] # <<>>
                   THEN [t1 EXCEPT !.price_performance = table,
                                   !.result_pp = [stock_data |-> data[1],
                                                  index_data |-> data[2]],
                                   !.last_pp = IF ok
                                               THEN Put(@, id, CHOOSE r \in table : r.id = id)
                                               ELSE @]
                   ELSE t1
    /\ UNCHANGED <<store, source, run, hist, dv, cl, pp, sv>>

\* lines 1282-1297: the completeness check of the company snapshot
CheckCompany ==
    /\ td.pc = "cd_check"
    /\ \E ok \in BOOLEAN :
          LET cached_cd == check_company_data_cache(
                               td.company_data, td.ticker, td.as_of_date, ok)
              t1 == [td EXCEPT !.cached_cd = cached_cd, !.cd_read_ok = ok]
          IN td' = IF NeedsFetch(cached_cd)
                   THEN [t1 EXCEPT !.pc = "cd_fetch"]
                   ELSE [t1 EXCEPT !.pc = "key_metrics", !.result_cd = cached_cd]
    /\ UNCHANGED <<store, source, run, hist, dv, cl, pp, sv>>

\* lines 1298-1313: fetch the snapshot and save it
FetchCompany ==
    /\ td.pc = "cd_fetch"
    /\ \E o \in CompanyOutcomes, ok \in BOOLEAN : \E q \in QuotesOf(o) :
          LET company_data == fetch_company_data_fmp(o, q)
              id == <<td.ticker, td.as_of_date>>
              table == save_company_data(td.company_data, td.ticker, td.as_of_date,
                                         company_data, ok)
              t1 == [td EXCEPT !.pc = "key_metrics", !.cd_fetches = @ + 1]
          IN td' = IF DOMAIN company_data # {}
                   THEN [t1 EXCEPT !.company_data = table,
                                   !.result_cd = company_data,
                                   !.cd_replaced =
                                       \E r \in td.company_data :
                                          r.id = id /\ r \notin table,
                                   !.last_cd = IF ok
                                               THEN Put(@, id, CHOOSE r \in table : r.id = id)
                                               ELSE @]
                   ELSE t1
    /\ UNCHANGED <<store, source, run, hist, dv, cl, pp, sv>>

\* lines 1315-1325: pull_key_metrics, whose steps are the actions of Spec;
\* here it is any of its effects on the key_metrics row of the ticker: no
\* write, a failed write, or a panel saved by save_key_metrics; the function
\* returns and its locals are gone
Returned(t) ==
    [t EXCEPT !.pc = "done", !.cached_pp = EmptyDict, !.cached_cd = EmptyDict,
              !.result_pp = EmptyDict, !.result_cd = EmptyDict,
              !.pp_fetches = 0, !.cd_fetches = 0,
              !.pp_read_ok = TRUE, !.cd_read_ok = TRUE, !.cd_replaced = FALSE]

KeyMetricsStep ==
    /\ td.pc = "key_metrics"
    /\ \/ /\ td' = Returned(td)
          /\ UNCHANGED store
       \/ \E panel \in KeyMetricsPanels, ok \in BOOLEAN :
             /\ store' = [store EXCEPT ![td.ticker] = save_key_metrics(@, panel, ok)]
             /\ td' = [Returned(td) EXCEPT
                          !.last_km = IF ok THEN Put(@, td.ticker, panel) ELSE @]
    /\ UNCHANGED <<source, run, hist, dv, cl, pp, sv>>

InitData ==
    /\ store = [t \in Tickers |-> NoRow]
    /\ source = [t \in Tickers |-> BaseYear]
    /\ run = [r \in Runs |-> IdleRun]
    /\ hist = NoHist
    /\ dv = NoDerive
    /\ cl = NoClassify
    /\ td = IdleTesla
    /\ pp = NoPrices
    /\ sv = NoSave

NextData ==
    \/ TeslaBegin
    \/ CheckPrice
    \/ FetchPrice
    \/ CheckCompany
    \/ FetchCompany
    \/ KeyMetricsStep

SpecData == InitData /\ [][NextData]_vars

(***************************************************************************)
(* Claims about pull_tesla_data, checked under SpecData                    *)
(***************************************************************************)
\* the rows of company_data under the key of the running call
SnapshotRows == {r \in td.company_data : r.id = <<td.ticker, td.as_of_date>>}

\* the rows of price_performance under the key of the running call
PriceRows == {r \in td.price_performance : r.id = <<td.ticker, td.start_date, td.end_date>>}

\* the company check has answered None after reading the store
CompanyCheckFailed == td.pc = "cd_fetch" /\ td.cd_read_ok

\* the company check has answered with a record
CompanyCheckPassed == td.pc = "key_metrics" /\ td.cd_fetches = 0

\* C17: check_company_data_cache returns the cached record if and only if a
\* record exists under (ticker, asOfDate) and each of its nine required
\* fields is present and neither null nor empty.
C17_CompletenessOfSnapshot ==
    /\ CompanyCheckFailed => ~(\E r \in SnapshotRows : AllFieldsNonEmpty(r.columns))
    /\ CompanyCheckPassed =>
          \E r \in SnapshotRows :
             /\ AllFieldsNonEmpty(r.columns)
             /\ \A f \in required_fields : td.cached_cd[f] = r.columns[f]

\* the price step of the running call is over
PriceStepDone == td.pc \in {"cd_check", "cd_fetch", "key_metrics"}

\* the company step of the running call is over
CompanyStepDone == td.pc = "key_metrics"

\* C18: for the price series and for the company snapshot, the external
\* fetch is issued if and only if the completeness check has answered None;
\* when the check answers with a record, no fetch is made for that kind and
\* that record, the one in the store, is what the call returns.
C18_CompletenessGate ==
    /\ td.pc = "pp_fetch" => td.cached_pp = EmptyDict /\ td.pp_fetches = 0
    /\ td.pc = "cd_fetch" => td.cached_cd = EmptyDict /\ td.cd_fetches = 0
    /\ PriceStepDone =>
          /\ td.pp_fetches = IF td.cached_pp = EmptyDict THEN 1 ELSE 0
          /\ td.cached_pp # EmptyDict =>
                /\ td.result_pp = td.cached_pp
                /\ \E r \in PriceRows :
                      /\ td.result_pp.stock_data = JsonLoads(r.stock_data)
                      /\ td.result_pp.index_data = JsonLoads(r.index_data)
    /\ CompanyStepDone =>
          /\ td.cd_fetches = IF td.cached_cd = EmptyDict THEN 1 ELSE 0
          /\ td.cached_cd # EmptyDict =>
                /\ td.result_cd = td.cached_cd
                /\ \E r \in SnapshotRows :
                      \A f \in required_fields : td.result_cd[f] = r.columns[f]

\* a call that returned the cached price series without a price fetch and
\* fetched the company snapshot after its check had failed
C18_Witness ==
    /\ CompanyStepDone
    /\ td.cached_pp # EmptyDict /\ td.pp_fetches = 0
    /\ td.cached_cd = EmptyDict /\ td.cd_fetches = 1
    /\ td.result_cd # EmptyDict

\* C19: once a snapshot is persisted under (ticker, asOfDate), no
\* later step changes or removes the record under that key.
C19_SnapshotImmutable ==
    [][\A r \in td.company_data : r \in td'.company_data]_vars

\* what does hold of the stored snapshots: a persisted snapshot is left as
\* it is by every later run, unless it is the record of the run's own key
\* and the run's check could not read the store or found a required column
\* NULL; records under every other key are never changed.
C19_CompleteSnapshotImmutable ==
    [][\A r \in td.company_data :
          (\/ r.id # <<td.ticker, td.as_of_date>>
           \/ (AllFieldsNotNone(r.columns) /\ td.cd_read_ok))
          => r \in td'.company_data]_vars

\* a later run has met the persisted complete snapshot of its key and has
\* passed the company step without a fetch, while a snapshot for the other
\* date is stored too
C19_Witness ==
    /\ CompanyCheckPassed
    /\ \E r \in SnapshotRows : AllFieldsNotNone(r.columns) /\ td.result_cd # EmptyDict
    /\ \E r \in td.company_data : r.id # <<td.ticker, td.as_of_date>>

\* every row of the three tables, as (key, value) pairs
Rows(table) == {<<r.id, r>> : r \in table}

\* the last successful put to each key, as (key, value) pairs
LastPuts(last) == {<<k, last[k]>> : k \in DOMAIN last}

\* C20: after any sequence of puts by save_key_metrics, save_company_data
\* and save_price_performance, each table holds at most one record per key
\* and the record under a key is the value of the last successful put to
\* that key; a put to one key leaves every other key's record as it was.
C20_UpsertSemantics ==
    /\ \A r1, r2 \in td.company_data : r1.id = r2.id => r1 = r2
    /\ \A r1, r2 \in td.price_performance : r1.id = r2.id => r1 = r2
    /\ Rows(td.company_data) = LastPuts(td.last_cd)
    /\ Rows(td.price_performance) = LastPuts(td.last_pp)
    /\ \A t \in Tickers :
          check_key_metrics_cache(store[t], TRUE) = Get(td.last_km, t, EmptyDict)

\* two keys hold company snapshots, and the snapshot of the running call's
\* key has just been replaced by a second put
C20_Witness ==
    /\ td.pc = "key_metrics" /\ td.cd_fetches = 1 /\ td.result_cd # EmptyDict
    /\ \E r \in SnapshotRows :
          \A f \in DOMAIN td.result_cd : r.columns[f] = td.result_cd[f]
    /\ \E r \in td.company_data : r.id # <<td.ticker, td.as_of_date>>
    /\ td.cd_replaced
    /\ Cardinality(td.company_data) = 2
    /\ Cardinality(td.price_performance) = 2
    /\ store[td.ticker].present

\* C29: once pull_tesla_data has fetched a snapshot and saved it under
\* (ticker, asOfDate), the check of a later run for that key, reading the
\* store, finds the record complete: no run whose check could read the
\* store goes on to fetch while a record is stored under its key.
C29_GateSatisfiedByOwnWrites ==
    CompanyCheckFailed => SnapshotRows = {}

(***************************************************************************)
(* fetch_price_performance_fmp on bounded responses of the price endpoint  *)
(***************************************************************************)
\* longest list of observations in a response
MaxObs == 2

ObsDates == {1, 2}

StockCloses == {Null, Zero, Num(50), Num(200)}

IndexCloses == {Zero, Num(200)}

\* the lists of at most MaxObs observations with closes from the given set
Observations(closes) ==
    UNION {[1..n -> [date : ObsDates, close : closes]] : n \in 0..MaxObs}

\* the responses with at most one observation
ShortObservations(closes) ==
    {<<>>} \cup {<<o>> : o \in [date : ObsDates, close : closes]}

\* the two responses of one call: status code and observations, per symbol
PriceResponses ==
    {[pc |-> "in", stock_status |-> st, stock |-> s, index_status |-> 200, index |-> i,
      stock_data |-> <<>>, index_data |-> <<>>] :
        st \in {200, 500}, s \in Observations(StockCloses), i \in Observations(IndexCloses)}

InitRebase ==
    /\ store = [t \in Tickers |-> NoRow]
    /\ source = [t \in Tickers |-> BaseYear]
    /\ run = [r \in Runs |-> IdleRun]
    /\ hist = NoHist
    /\ dv = NoDerive
    /\ cl = NoClassify
    /\ td = NoTesla
    /\ pp \in PriceResponses
    /\ sv = NoSave

\* lines 324-328: (stock_data, index_data) of the two responses
BothSeries(stock_status, stock, index_status, index) ==
    <<fetch_historical_prices(stock_status, stock),
      fetch_historical_prices(index_status, index)>>

FetchPricePerformance ==
    /\ pp.pc = "in"
    /\ LET both == BothSeries(pp.stock_status, pp.stock, pp.index_status, pp.index)
       IN pp' = [pp EXCEPT !.pc = "out", !.stock_data = both[1], !.index_data = both[2]]
    /\ UNCHANGED <<store, source, run, hist, dv, cl, td, sv>>

NextRebase == FetchPricePerformance

SpecRebase == InitRebase /\ [][NextRebase]_vars

\* the oldest date of a non-empty list of observations
OldestDate(data) == CHOOSE d \in ObsDates :
    /\ \E k \in 1..Len(data) : data[k].date = d
    /\ \A k \in 1..Len(data) : data[k].date >= d

\* a returned series starts at the oldest date with rebased_close 100 and
\* is rebased on its own first close throughout
RebasedOnOwnFirst(series, data) ==
    series # <<>> =>
       /\ Len(series) = Len(data)
       /\ series[1].date = OldestDate(data)
       /\ series[1].rebased_close = Hundred
       /\ \A k \in 1..Len(series) :
             series[k].rebased_close = Mul(Div(series[k].close, series[1].close), Hundred)

\* the close of the first of the observations of the oldest date
FirstClose(data) == data[CHOOSE k \in 1..Len(data) :
    /\ data[k].date = OldestDate(data)
    /\ \A j \in 1..(k - 1) : data[j].date # OldestDate(data)].close

\* C21: in every series fetch_price_performance_fmp returns, the first
\* observation is the oldest one and its rebased_close is exactly 100, each
\* series is rebased on its own first close whatever the other series is,
\* and a series whose first close is 0 is None.
C21_Rebasing ==
    pp.pc = "out" =>
       /\ RebasedOnOwnFirst(pp.stock_data, pp.stock)
       /\ RebasedOnOwnFirst(pp.index_data, pp.index)
       /\ \A other \in ShortObservations(IndexCloses) :
             BothSeries(pp.stock_status, pp.stock, pp.index_status, other)[1] = pp.stock_data
       /\ (pp.stock # <<>> /\ FirstClose(pp.stock) = Zero) => pp.stock_data = <<>>
       /\ (pp.index # <<>> /\ FirstClose(pp.index) = Zero) => pp.index_data = <<>>

\* a response served newest first: the stock series is re-ordered and
\* rebased on 50, the index series on 200
C21_Witness ==
    /\ pp.pc = "out"
    /\ Len(pp.stock_data) = 2 /\ Len(pp.index_data) = 2
    /\ pp.stock[1].date > pp.stock[2].date
    /\ pp.stock_data[1].close = Num(50) /\ pp.stock_data[2].close = Num(200)
    /\ pp.stock_data[2].rebased_close = Num(400)
    /\ pp.index_data[1].close = Num(200)

(***************************************************************************)
(* save_forecast_to_cache on a key_metrics table with two tickers          *)
(***************************************************************************)
SaveTickers == {"TSLA", "AAPL"}

\* the labels save_key_metrics is given: its default and another month
FiscalYearEnds == {"Dec", "Mar"}

\* an entry of a stored panel for year y
StoredEntries(y) == {CapForecast(y), BadKeys}

\* the panels a row may hold before the save: any entries for any of the
\* years BaseYear and BaseYear + 1
StoredPanelsBefore ==
    UNION {{panel \in [years -> StoredEntries(BaseYear) \cup StoredEntries(BaseYear + 1)] :
               \A y \in years : panel[y] \in StoredEntries(y)} :
           years \in SUBSET {BaseYear, BaseYear + 1}}

StoredRows ==
    {NoRow} \cup {Row(panel, label) : panel \in StoredPanelsBefore, label \in FiscalYearEnds}

InitSave ==
    /\ store \in [SaveTickers -> StoredRows]
    /\ source = [t \in Tickers |-> BaseYear]
    /\ run = [r \in Runs |-> IdleRun]
    /\ hist = NoHist
    /\ dv = NoDerive
    /\ cl = NoClassify
    /\ td = NoTesla
    /\ pp = NoPrices
    /\ sv = [pc |-> "in"]

\* one call save_forecast_to_cache(ticker, forecast_year, forecast_data);
\* ok is whether the read and the write succeed, which is what it returns
SaveForecast ==
    /\ sv.pc = "in"
    /\ \E t \in SaveTickers, y \in {BaseYear + 1, BaseYear + 2}, ok \in BOOLEAN :
          \E data \in StoredEntries(y) :
             /\ store' = [store EXCEPT ![t] = save_forecast_to_cache(@, y, data, ok)]
             /\ sv' = [pc |-> "saved", ticker |-> t, forecast_year |-> y,
                       forecast_data |-> data, returned |-> ok, before |-> store]
    /\ UNCHANGED <<source, run, hist, dv, cl, td, pp>>

NextSave == SaveForecast

SpecSave == InitSave /\ [][NextSave]_vars

\* C28: a successful save_forecast_to_cache(ticker, Y, data) changes the
\* ticker's stored panel in the entry for Y only and keeps the row's
\* fiscal_year_end; rows of other tickers are untouched; when it returns
\* False the store is as it was.
C28_SaveForecastFrame ==
    sv.pc = "saved" =>
       LET t == sv.ticker
           y == sv.forecast_year
           old == IF sv.before[t].present THEN sv.before[t].metrics_data ELSE EmptyDict
           new == store[t].metrics_data
       IN IF sv.returned
          THEN /\ store[t].present
               /\ DOMAIN new = DOMAIN old \cup {y}
               /\ new[y] = sv.forecast_data
               /\ \A z \in DOMAIN old \ {y} : new[z] = old[z]
               /\ sv.before[t].present => store[t].fiscal_year_end = sv.before[t].fiscal_year_end
               /\ \A u \in SaveTickers \ {t} : store[u] = sv.before[u]
          ELSE store = sv.before

\* a save that replaced the entry of a year in a two-year panel labelled
\* "Mar" while the other ticker holds a row
C28_Witness ==
    /\ sv.pc = "saved" /\ sv.returned
    /\ sv.before[sv.ticker].present
    /\ sv.before[sv.ticker].fiscal_year_end = "Mar"
    /\ DOMAIN sv.before[sv.ticker].metrics_data = {BaseYear, BaseYear + 1}
    /\ sv.forecast_year = BaseYear + 1
    /\ sv.before[sv.ticker].metrics_data[BaseYear + 1] # sv.forecast_data
    /\ \E u \in SaveTickers \ {sv.ticker} : store[u].present

(***************************************************************************)
(* Two invocations of pull_key_metrics for one ticker in two processes on  *)
(* one cache.db. Each process takes its steps in order; the steps of the   *)
(* two interleave at every store access. Every store access succeeds       *)
(* (failing accesses are covered under Spec), each process is invoked      *)
(* once, with market data given.                                            *)
(***************************************************************************)
Racers == {1, 2}

InitRace ==
    /\ store = [t \in Tickers |-> NoRow]
    /\ source = [t \in Tickers |-> BaseYear]
    /\ run = [r \in Racers |-> IdleRun]
    /\ hist = NoHist
    /\ dv = NoDerive
    /\ cl = NoClassify
    /\ td = NoTesla
    /\ pp = NoPrices
    /\ sv = NoSave

\* the one call of pull_key_metrics of process r
BeginOnce(r) ==
    /\ run[r].pc = "idle"
    /\ Begin(r)
    /\ ~run'[r].read_failed
    /\ run'[r].market_cap # Null

\* a step of pull_key_metrics outside save_forecast_to_cache, its store
\* access succeeding
PullStep(r) ==
    /\ \/ FetchCached(r)
       \/ FetchFresh(r)
       \/ SaveActual(r)
       \/ GenLoad(r)
       \/ GenYear(r)
       \/ SaveFinal(r)
       \/ SaveCached(r)
    /\ CleanStore(run'[r])

\* save_forecast_to_cache, lines 368-378: the SELECT of the stored row, which
\* runs outside any transaction
SaveRead(r) ==
    /\ run[r].pc = "gen_save"
    /\ run' = [run EXCEPT ![r] = [@ EXCEPT !.pc = "gen_write", !.row = store[run[r].ticker]]]
    /\ UNCHANGED <<store, source, hist, dv, cl, td, pp, sv>>

\* save_forecast_to_cache, lines 380-409: the year is set in the panel that
\* was read and the row is written back
SaveWrite(r) ==
    /\ run[r].pc = "gen_write"
    /\ LET rr == run[r]
           forecast_year == rr.latest_actual_year + rr.i
       IN /\ store' = [store EXCEPT ![rr.ticker] =
                          save_forecast_to_cache(rr.row, forecast_year, rr.forecast, TRUE)]
          /\ run' = [run EXCEPT ![r] =
                        [rr EXCEPT !.pc = "gen_reload",
                                   !.results = Put(rr.results, forecast_year, rr.forecast)]]
    /\ UNCHANGED <<source, hist, dv, cl, td, pp, sv>>

\* generate_forecast_for_years, lines 566-567: reload the cache
Reload(r) ==
    /\ run[r].pc = "gen_reload"
    /\ run' = [run EXCEPT ![r] =
                  NextYear([@ EXCEPT !.forecast = EmptyDict, !.row = NoRow,
                                     !.all_data = load_all_data_from_cache(store[run[r].ticker], TRUE)])]
    /\ UNCHANGED <<store, source, hist, dv, cl, td, pp, sv>>

NextRace ==
    \/ \E r \in Racers : BeginOnce(r)
    \/ \E r \in Racers : PullStep(r)
    \/ \E r \in Racers : SaveRead(r)
    \/ \E r \in Racers : SaveWrite(r)
    \/ \E r \in Racers : Reload(r)

SpecRace == InitRace /\ [][NextRace]_vars

(***************************************************************************)
(* Claims on interleaved invocations (checked under SpecRace)              *)
(***************************************************************************)
BothDone == \A r \in Racers : Done(r)

\* process r takes the step that leaves the given place
Leaves(r, pc) == run[r].pc = pc /\ run'[r].pc # pc

\* the panel save_forecast_to_cache of process r writes: the panel of the row
\* it read, with the year it resolved
PatchedPanel(rr) ==
    Put(IF rr.row.present THEN rr.row.metrics_data ELSE EmptyDict,
        rr.latest_actual_year + rr.i, rr.forecast)

\* C27: two interleaved runs for one ticker write without locking and the
\* last write wins. Once both have finished, a stored panel is exactly the
\* panel one of them returned (the blob of its last write), never a merge of
\* the two; and every write puts the writer's blob in place of the stored
\* panel: save_forecast_to_cache writes the panel it read with its one year
\* set, pull_key_metrics writes its in-memory panel, so a year the other run
\* persisted after the writer's read is gone after the write.
C27_LastWriteWins ==
    /\ [](BothDone /\ store["TSLA"].present
          => \E r \in Racers : ~run[r].ret.none /\ StoredPanel("TSLA") = run[r].ret.panel)
    /\ [][\A r \in Racers :
             /\ Leaves(r, "gen_write") => StoredPanel("TSLA")' = PatchedPanel(run[r])
             /\ Leaves(r, "save_actual") => StoredPanel("TSLA")' = run[r].result
             /\ (Leaves(r, "save_final") \/ Leaves(r, "save_cached"))
                => StoredPanel("TSLA")' = run'[r].ret.panel]_vars

\* a lost update: both runs have finished; one of them had its forecast for
\* a year stored by save_forecast_to_cache; the other, which read the store
\* before that, wrote its panel last, and the year is not in the store
C27_Witness ==
    /\ BothDone
    /\ \E r \in Racers, o \in Racers, y \in BaseYear..(BaseYear + Horizon) :
          /\ r # o
          /\ y \in DOMAIN run[r].results
          /\ \E k \in DOMAIN run[r].calls : run[r].calls[k] = <<y, "good">>
          /\ y \notin DOMAIN StoredPanel("TSLA")
          /\ ~run[o].ret.none
          /\ StoredPanel("TSLA") = run[o].ret.panel

====
